---- MODULE Spec2Model ----
(***************************************************************************)
(* TIC-80 Pro Manager: the step-execution engine and its terminal state    *)
(* machine (a bubbletea program).  The repository holds two builds of the  *)
(* program: src/main.go (version 1.1.2837) and src/unnamed/part_000        *)
(* (version 1.2.3019, with the log viewport).  Both are modelled; the      *)
(* variable build says which one is running.                               *)
(*                                                                         *)
(* Update is a pure function (model, message) -> (model, commands), as in  *)
(* the source; the runtime actions below deliver one message at a time and *)
(* start the commands Update returns.                                      *)
(*                                                                         *)
(* Text is a sequence of text pieces: concatenation is \o, and a text      *)
(* contains another when that one occurs in it as a contiguous run.        *)
(***************************************************************************)
EXTENDS Integers, Sequences, FiniteSets, TLC

VARIABLES
    build,      \* which of the two source files is running
    m,          \* the model struct
    inflight,   \* step commands started whose completion message is not yet handled
    ticks,      \* spinner tick commands started and not yet delivered
    quit,       \* Update returned tea.Quit: the program has ended
    panicked,   \* Update panicked (index out of range): the program has crashed
    executed,   \* history: the steps whose command was started, in order
    completed   \* history: the completion events handled, in order

vars == <<build, m, inflight, ticks, quit, panicked, executed, completed>>

\* ---------------------------------------------------------------- bounds

\* Resize events carry one of MaxDim window sizes.
MaxDim == 1

\* ------------------------------------------------------------------ text

Contains(text, sub) ==
    \E i \in 0..(Len(text) - Len(sub)) :
        \A j \in 1..Len(sub) : text[i + j] = sub[j]

\* A Go error value: nil, or an error with its Error() text.
nil == [isNil |-> TRUE, text |-> <<>>]

Error(text) == [isNil |-> FALSE, text |-> text]

\* ------------------------------------------------------------- constants

stateMenu == "stateMenu"

stateRunning == "stateRunning"

stateDone == "stateDone"

choices == <<"Install TIC-80 Pro", "Upgrade (Rebuild)", "Uninstall", "Exit">>

Builds == {"main.go", "part_000"}

DEPS_CMD == "dnf -y install @development-tools"

DEPS_PKGS_main == "dnf -y install gcc gcc-c++ cmake ruby rubygem-rake libglvnd-devel libglvnd-gles freeglut-devel alsa-lib-devel git libX11-devel libXext-devel libXcursor-devel libXi-devel libXrandr-devel"

DEPS_PKGS_part == "dnf -y install gcc gcc-c++ cmake ruby rubygem-rake libglvnd-devel libglvnd-gles freeglut-devel alsa-lib-devel git libX11-devel libXext-devel libXcursor-devel libXi-devel libXrandr-devel mesa-libGLU-devel curl"

installStep(desc, cmd) == [desc |-> desc, cmd |-> cmd]

\* ----------------------------------------------------------- step plans

\* case 0, 1: the Install / Upgrade plan
InstallPlan_main ==
    << installStep("Installing Group Tools...", DEPS_CMD),
       installStep("Installing Libraries (X11/GL/Audio)...", DEPS_PKGS_main),
       installStep("Cleaning previous builds...", "rm -rf /tmp/tic80-build"),
       installStep("Creating build directory...", "mkdir -p /tmp/tic80-build"),
       installStep("Cloning Repository...", "git clone --recursive https://github.com/nesbox/TIC-80.git /tmp/tic80-build/TIC-80"),
       installStep("Configuring CMake...", "mkdir -p /tmp/tic80-build/TIC-80/build && cd /tmp/tic80-build/TIC-80/build && cmake -DBUILD_PRO=On .."),
       installStep("Compiling (Using all cores)...", "cd /tmp/tic80-build/TIC-80/build && make -j$(nproc)"),
       installStep("Installing to /usr/local/bin...", "cd /tmp/tic80-build/TIC-80/build && make install"),
       installStep("Cleaning up...", "rm -rf /tmp/tic80-build") >>

\* case 2: the Uninstall plan
UninstallPlan_main ==
    << installStep("Removing Binary...", "rm -f /usr/local/bin/tic80"),
       installStep("Removing Desktop Entry...", "rm -f /usr/local/share/applications/tic80.desktop"),
       installStep("Removing Icon...", "rm -f /usr/local/share/icons/hicolor/scalable/apps/tic80.svg") >>

getSteps_main(choice) ==
    CASE choice \in {0, 1} -> InstallPlan_main
      [] choice = 2 -> UninstallPlan_main
      [] OTHER -> << >>

\* case 0, 1: the Install / Upgrade plan
InstallPlan_part ==
    << installStep("Installing Group Tools...", DEPS_CMD),
       installStep("Installing Deps (GLU/Curl/X11)...", DEPS_PKGS_part),
       installStep("Cleaning previous builds...", "rm -rf /var/tmp/tic80-build"),
       installStep("Creating build directory...", "mkdir -p /var/tmp/tic80-build"),
       installStep("Cloning Repository...", "git clone --recursive https://github.com/nesbox/TIC-80.git /var/tmp/tic80-build/TIC-80"),
       installStep("Patching SDL2...", "cd /var/tmp/tic80-build/TIC-80/vendor/sdl2 && git fetch --tags && git checkout release-2.32.8"),
       installStep("Configuring CMake (Forcing Pro)...", "mkdir -p /var/tmp/tic80-build/TIC-80/build && cd /var/tmp/tic80-build/TIC-80/build && cmake -DCMAKE_C_FLAGS=\"-DTIC80_PRO\" -DCMAKE_CXX_FLAGS=\"-DTIC80_PRO\" -DBUILD_PRO=On -DBUILD_WITH_ALL=On -DBUILD_SDL=On -DBUILD_SDLGPU=On -DBUILD_STATIC=On .."),
       installStep("Compiling...", "cd /var/tmp/tic80-build/TIC-80/build && make -j$(nproc)"),
       installStep("Installing...", "cd /var/tmp/tic80-build/TIC-80/build && make install"),
       installStep("Cleaning up...", "rm -rf /var/tmp/tic80-build") >>

\* case 2: the Uninstall plan
UninstallPlan_part ==
    << installStep("Removing Binary...", "rm -f /usr/local/bin/tic80"),
       installStep("Removing Desktop...", "rm -f /usr/local/share/applications/tic80.desktop"),
       installStep("Removing Icon...", "rm -f /usr/local/share/icons/hicolor/scalable/apps/tic80.svg") >>

\* A plausible slip: case 0 only, so Upgrade falls through to return nil.
getSteps_part_noUpgrade(choice) ==
    CASE choice = 0 -> InstallPlan_part
      [] choice = 2 -> UninstallPlan_part
      [] OTHER -> << >>

getSteps_part(choice) ==
    CASE choice \in {0, 1} -> InstallPlan_part
      [] choice = 2 -> UninstallPlan_part
      [] OTHER -> << >>

\* --------------------------------------------------------------- commands

\* tea.Quit
Quit == [type |-> "Quit"]

\* m.spinner.Tick, and the next tick spinner.Update returns
spinnerTick == [type |-> "Tick"]

\* runStep(step) / runStepStreamed(step): the command, not yet run
runStep(step) == [type |-> "runStep", step |-> step]

\* What Update returns: the model, the commands (tea.Batch is their sequence,
\* nil the empty one), and whether the handler panicked on an index out of range.
Return(mm, cmds) == [m |-> mm, cmds |-> cmds, panic |-> FALSE]

Panic(mm) == [m |-> mm, cmds |-> << >>, panic |-> TRUE]

\* Go's s[i] on a slice: in range or a runtime panic.
InRange(s, i) == 0 <= i /\ i < Len(s)

At(s, i) == s[i + 1]

\* ------------------------------------------------------ src/main.go Update

initialModel_main ==
    [ width       |-> 0,
      height      |-> 0,
      cursor      |-> 0,
      state       |-> stateMenu,
      steps       |-> << >>,
      currentStep |-> 0,
      logMsg      |-> "type help for help",
      err         |-> nil ]

WindowSizeMsg_main(mm, msg) ==
    Return([mm EXCEPT !.width = msg.Width, !.height = msg.Height], << >>)

\* A plausible slip: the wrong index for Exit.
KeyEnterMenu_main_exitAt2(mm) ==
    IF mm.cursor = 2
    THEN Return(mm, <<Quit>>)
    ELSE LET steps == getSteps_main(mm.cursor)
             m1 == [mm EXCEPT !.state = stateRunning,
                              !.currentStep = 0,
                              !.err = nil,
                              !.steps = steps]
         IN  IF InRange(steps, 0)
             THEN Return(m1, <<spinnerTick, runStep(At(steps, 0))>>)
             ELSE Panic(m1)

KeyEnterMenu_main(mm) ==
    IF mm.cursor = 3
    THEN Return(mm, <<Quit>>)
    ELSE LET steps == getSteps_main(mm.cursor)
             m1 == [mm EXCEPT !.state = stateRunning,
                              !.currentStep = 0,
                              !.err = nil,
                              !.steps = steps]
         IN  IF InRange(steps, 0)
             THEN Return(m1, <<spinnerTick, runStep(At(steps, 0))>>)
             ELSE Panic(m1)

KeyUp_main(mm) ==
    Return(IF mm.cursor > 0 THEN [mm EXCEPT !.cursor = mm.cursor - 1] ELSE mm, << >>)

\* A plausible slip: the cursor is not clamped at the last entry.
KeyDown_main_noClamp(mm) ==
    Return([mm EXCEPT !.cursor = mm.cursor + 1], << >>)

KeyDown_main(mm) ==
    Return(IF mm.cursor < Len(choices) - 1
           THEN [mm EXCEPT !.cursor = mm.cursor + 1]
           ELSE mm, << >>)

KeyMsg_main(mm, msg) ==
    IF mm.state = stateMenu
    THEN CASE msg.key \in {"ctrl+c", "q"} -> Return(mm, <<Quit>>)
           [] msg.key \in {"up", "k"} -> KeyUp_main(mm)
           [] msg.key \in {"down", "j"} -> KeyDown_main(mm)
           [] msg.key = "enter" -> KeyEnterMenu_main(mm)
           [] OTHER -> Return(mm, << >>)
    ELSE IF mm.state = stateDone
    THEN IF msg.key = "enter" \/ msg.key = "q"
         THEN Return(mm, <<Quit>>)
         ELSE Return(mm, << >>)
    ELSE Return(mm, << >>)

\* spinner.Update (bubbles) advances the frame and returns the next tick, or
\* nothing for a tick it does not accept (msg.stale).
TickMsg_main(mm, msg) ==
    IF mm.state = stateRunning
    THEN Return(mm, IF msg.stale THEN << >> ELSE <<spinnerTick>>)
    ELSE Return(mm, << >>)

\* A plausible slip: > for >= in the test for the end of the plan.
stepFinishedMsg_main_offByOne(mm, msg) ==
    IF ~msg.err.isNil
    THEN Return([mm EXCEPT !.state = stateDone, !.err = msg.err], << >>)
    ELSE LET m1 == [mm EXCEPT !.currentStep = mm.currentStep + 1]
         IN  IF m1.currentStep > Len(m1.steps)
             THEN Return([m1 EXCEPT !.state = stateDone,
                                    !.logMsg = "Process Completed."], << >>)
             ELSE IF InRange(m1.steps, m1.currentStep)
             THEN Return(m1, <<runStep(At(m1.steps, m1.currentStep))>>)
             ELSE Panic(m1)

\* A plausible slip: the failure branch does not store the error.
stepFinishedMsg_main_noErr(mm, msg) ==
    IF ~msg.err.isNil
    THEN Return([mm EXCEPT !.state = stateDone], << >>)
    ELSE LET m1 == [mm EXCEPT !.currentStep = mm.currentStep + 1]
         IN  IF m1.currentStep >= Len(m1.steps)
             THEN Return([m1 EXCEPT !.state = stateDone,
                                    !.logMsg = "Process Completed."], << >>)
             ELSE Return(m1, <<runStep(At(m1.steps, m1.currentStep))>>)

\* A plausible slip: the next step's command is not returned.
stepFinishedMsg_main_noNext(mm, msg) ==
    IF ~msg.err.isNil
    THEN Return([mm EXCEPT !.state = stateDone, !.err = msg.err], << >>)
    ELSE LET m1 == [mm EXCEPT !.currentStep = mm.currentStep + 1]
         IN  IF m1.currentStep >= Len(m1.steps)
             THEN Return([m1 EXCEPT !.state = stateDone,
                                    !.logMsg = "Process Completed."], << >>)
             ELSE Return(m1, << >>)

stepFinishedMsg_main(mm, msg) ==
    IF ~msg.err.isNil
    THEN Return([mm EXCEPT !.state = stateDone, !.err = msg.err], << >>)
    ELSE LET m1 == [mm EXCEPT !.currentStep = mm.currentStep + 1]
         IN  IF m1.currentStep >= Len(m1.steps)
             THEN Return([m1 EXCEPT !.state = stateDone,
                                    !.logMsg = "Process Completed."], << >>)
             ELSE Return(m1, <<runStep(At(m1.steps, m1.currentStep))>>)

Update_main(mm, msg) ==
    CASE msg.type = "WindowSizeMsg" -> WindowSizeMsg_main(mm, msg)
      [] msg.type = "KeyMsg" -> KeyMsg_main(mm, msg)
      [] msg.type = "TickMsg" -> TickMsg_main(mm, msg)
      [] msg.type = "stepFinishedMsg" -> stepFinishedMsg_main(mm, msg)
      [] OTHER -> Return(mm, << >>)

\* The closure runStep returns: cmd.CombinedOutput() gave (out, err).
runStep_main(step, out, err) ==
    IF ~err.isNil
    THEN [type |-> "stepFinishedMsg",
          err  |-> Error(<<"Step '", step.desc, "' failed:\n">> \o out)]
    ELSE [type |-> "stepFinishedMsg", err |-> nil]

\* ------------------------------------------- src/unnamed/part_000 Update

initialModel_part ==
    [ width       |-> 0,
      height      |-> 0,
      cursor      |-> 0,
      state       |-> stateMenu,
      steps       |-> << >>,
      currentStep |-> 0,
      logMsg      |-> "type help for help",
      err         |-> nil,
      viewport    |-> [Width |-> 0, Height |-> 0, content |-> << >>],
      showTerm    |-> FALSE,
      termContent |-> << >> ]

\* The tail of Update: m.viewport.Update(msg), which scrolls the viewport's own
\* view of the content and returns no command, then tea.Batch(cmds...).
ViewportUpdate_part(mm, cmds) == Return(mm, cmds)

WindowSizeMsg_part(mm, msg) ==
    ViewportUpdate_part(
        [mm EXCEPT !.width = msg.Width,
                   !.height = msg.Height,
                   !.viewport.Width = msg.Width - 4,
                   !.viewport.Height = msg.Height \div 3], << >>)

\* A plausible slip: the run is entered but the first step's command is not
\* among the commands returned.
KeyEnterMenu_part_noCommand(mm) ==
    IF mm.cursor = 3
    THEN Return(mm, <<Quit>>)
    ELSE LET steps == getSteps_part(mm.cursor)
             m1 == [mm EXCEPT !.state = stateRunning,
                              !.currentStep = 0,
                              !.err = nil,
                              !.termContent = << >>,
                              !.steps = steps]
         IN  IF InRange(steps, 0)
             THEN Return(m1, <<spinnerTick>>)
             ELSE Panic(m1)

KeyEnterMenu_part(mm) ==
    IF mm.cursor = 3
    THEN Return(mm, <<Quit>>)
    ELSE LET steps == getSteps_part(mm.cursor)
             m1 == [mm EXCEPT !.state = stateRunning,
                              !.currentStep = 0,
                              !.err = nil,
                              !.termContent = << >>,
                              !.steps = steps]
         IN  IF InRange(steps, 0)
             THEN Return(m1, <<spinnerTick, runStep(At(steps, 0))>>)
             ELSE Panic(m1)

\* A plausible slip: enter starts a run whatever the phase.
KeyEnter_part_anyState(mm) ==
    IF mm.state = stateDone THEN Return(mm, <<Quit>>) ELSE KeyEnterMenu_part(mm)

KeyEnter_part(mm) ==
    IF mm.state = stateMenu THEN KeyEnterMenu_part(mm)
    ELSE IF mm.state = stateDone THEN Return(mm, <<Quit>>)
    ELSE ViewportUpdate_part(mm, << >>)

\* A plausible slip: the toggle key also confirms, as enter does.
KeyToggle_part_confirms(mm) ==
    KeyEnter_part([mm EXCEPT !.showTerm = ~mm.showTerm])

KeyToggle_part(mm) == Return([mm EXCEPT !.showTerm = ~mm.showTerm], << >>)

KeyUp_part(mm) ==
    ViewportUpdate_part(
        IF mm.state = stateMenu /\ mm.cursor > 0
        THEN [mm EXCEPT !.cursor = mm.cursor - 1]
        ELSE mm, << >>)

KeyDown_part(mm) ==
    ViewportUpdate_part(
        IF mm.state = stateMenu /\ mm.cursor < Len(choices) - 1
        THEN [mm EXCEPT !.cursor = mm.cursor + 1]
        ELSE mm, << >>)

KeyMsg_part(mm, msg) ==
    CASE msg.key \in {"ctrl+c", "q"} -> Return(mm, <<Quit>>)
      [] msg.key \in {"tab", " "} -> KeyToggle_part(mm)
      [] msg.key \in {"up", "k"} -> KeyUp_part(mm)
      [] msg.key \in {"down", "j"} -> KeyDown_part(mm)
      [] msg.key = "enter" -> KeyEnter_part(mm)
      [] OTHER -> ViewportUpdate_part(mm, << >>)

TickMsg_part(mm, msg) ==
    IF mm.state = stateRunning
    THEN ViewportUpdate_part(mm, IF msg.stale THEN << >> ELSE <<spinnerTick>>)
    ELSE ViewportUpdate_part(mm, << >>)

\* fmt.Sprintf(">>> %s\n%s\n", cmdName, msg.output)
LogSegment(cmdName, output) == <<">>> ", cmdName, "\n">> \o output \o <<"\n">>

\* A plausible slip: the failure branch lacks its return and falls through to
\* the next step.
stepLogAndFinishMsg_part_noReturn(mm, msg) ==
    IF ~InRange(mm.steps, mm.currentStep)
    THEN Panic(mm)
    ELSE LET cmdName == At(mm.steps, mm.currentStep).desc
             text == mm.termContent \o LogSegment(cmdName, msg.output)
             m0 == [mm EXCEPT !.termContent = text,
                              !.viewport.content = text]
             m1 == IF ~msg.err.isNil
                   THEN [m0 EXCEPT !.state = stateDone, !.err = msg.err]
                   ELSE m0
             m2 == [m1 EXCEPT !.currentStep = m1.currentStep + 1]
         IN  IF m2.currentStep >= Len(m2.steps)
             THEN Return([m2 EXCEPT !.state = stateDone,
                                    !.logMsg = "Process Completed."], << >>)
             ELSE Return(m2, <<runStep(At(m2.steps, m2.currentStep))>>)

\* A plausible slip: the end of the plan does not set the completion message.
stepLogAndFinishMsg_part_noLogMsg(mm, msg) ==
    IF ~InRange(mm.steps, mm.currentStep)
    THEN Panic(mm)
    ELSE LET cmdName == At(mm.steps, mm.currentStep).desc
             text == mm.termContent \o LogSegment(cmdName, msg.output)
             m1 == [mm EXCEPT !.termContent = text,
                              !.viewport.content = text]
         IN  IF ~msg.err.isNil
             THEN Return([m1 EXCEPT !.state = stateDone, !.err = msg.err], << >>)
             ELSE LET m2 == [m1 EXCEPT !.currentStep = m1.currentStep + 1]
                  IN  IF m2.currentStep >= Len(m2.steps)
                      THEN Return([m2 EXCEPT !.state = stateDone], << >>)
                      ELSE Return(m2, <<runStep(At(m2.steps, m2.currentStep))>>)

\* A plausible slip: the outcome is looked at first, so a failed step returns
\* before its segment is appended.
stepLogAndFinishMsg_part_logAfterCheck(mm, msg) ==
    IF ~msg.err.isNil
    THEN Return([mm EXCEPT !.state = stateDone, !.err = msg.err], << >>)
    ELSE IF ~InRange(mm.steps, mm.currentStep)
    THEN Panic(mm)
    ELSE LET cmdName == At(mm.steps, mm.currentStep).desc
             text == mm.termContent \o LogSegment(cmdName, msg.output)
             m1 == [mm EXCEPT !.termContent = text,
                              !.viewport.content = text]
             m2 == [m1 EXCEPT !.currentStep = m1.currentStep + 1]
         IN  IF m2.currentStep >= Len(m2.steps)
             THEN Return([m2 EXCEPT !.state = stateDone,
                                    !.logMsg = "Process Completed."], << >>)
             ELSE Return(m2, <<runStep(At(m2.steps, m2.currentStep))>>)

stepLogAndFinishMsg_part(mm, msg) ==
    IF ~InRange(mm.steps, mm.currentStep)
    THEN Panic(mm)
    ELSE LET cmdName == At(mm.steps, mm.currentStep).desc
             text == mm.termContent \o LogSegment(cmdName, msg.output)
             \* viewport.SetContent(styleTermText.Render(m.termContent)) and
             \* GotoBottom(): the viewport shows the whole transcript
             m1 == [mm EXCEPT !.termContent = text,
                              !.viewport.content = text]
         IN  IF ~msg.err.isNil
             THEN Return([m1 EXCEPT !.state = stateDone, !.err = msg.err], << >>)
             ELSE LET m2 == [m1 EXCEPT !.currentStep = m1.currentStep + 1]
                  IN  IF m2.currentStep >= Len(m2.steps)
                      THEN Return([m2 EXCEPT !.state = stateDone,
                                             !.logMsg = "Process Completed."], << >>)
                      ELSE Return(m2, <<runStep(At(m2.steps, m2.currentStep))>>)

Update_part(mm, msg) ==
    CASE msg.type = "WindowSizeMsg" -> WindowSizeMsg_part(mm, msg)
      [] msg.type = "KeyMsg" -> KeyMsg_part(mm, msg)
      [] msg.type = "TickMsg" -> TickMsg_part(mm, msg)
      [] msg.type = "stepLogAndFinishMsg" -> stepLogAndFinishMsg_part(mm, msg)
      [] OTHER -> ViewportUpdate_part(mm, << >>)

\* The closure runStepStreamed returns: cmd.CombinedOutput() gave (output, err).
runStepStreamed_part(step, output, err) ==
    [type |-> "stepLogAndFinishMsg", output |-> output, err |-> err]

\* ------------------------------------------------------------------ View

\* style.Render(text): the text, marked with the style it is rendered in
\* (colours, padding and layout are lipgloss's).
Render(style, text) == <<style>> \o text

RECURSIVE Flatten(_)
Flatten(ss) == IF ss = << >> THEN << >> ELSE Head(ss) \o Flatten(Tail(ss))

\* What View returns: the frame, or a panic on an index out of range.
Frame(text) == [panic |-> FALSE, frame |-> Render("styleApp", text)]

FramePanic == [panic |-> TRUE, frame |-> << >>]

Header(version) ==
    <<"\n ">> \o Render("rainbow", <<"TIC-80 PRO MANAGER">>) \o <<"\n ">>
        \o Render("grey", <<version>>) \o <<"\n\n">>

MenuLines(mm) ==
    Flatten([i \in 1..Len(choices) |->
        IF mm.cursor = i - 1
        THEN <<" ">> \o Render("red", <<">█ ">>)
                 \o Render("styleSelected", <<choices[i]>>) \o <<"\n">>
        ELSE <<"    ">> \o Render("styleNormal", <<choices[i]>>) \o <<"\n">>])

RunningLines(mm) ==
    <<" ", "spinner", " ">>
        \o Render("styleNormal", <<At(mm.steps, mm.currentStep).desc>>)
        \o <<"\n\n">>
        \o Render("styleLog", <<" Step ", ToString(mm.currentStep + 1), " of ",
                                ToString(Len(mm.steps))>>)

DoneLines(mm) ==
    (IF ~mm.err.isNil
     THEN <<" ">> \o Render("styleError", <<"FAILED">>)
              \o <<"\n ">> \o Render("styleLog", mm.err.text)
     ELSE <<" ">> \o Render("styleSuccess", <<"SUCCESS">>)
              \o <<"\n ">> \o Render("styleLog", <<mm.logMsg>>))
        \o <<"\n\n ">> \o Render("styleLog", <<"Press Enter to Exit.">>)

View_main(mm) ==
    IF mm.state = stateMenu
    THEN Frame(Header(" version 1.1.2837 (fedora)") \o MenuLines(mm)
               \o <<"\n ">> \o Render("styleLog", <<"Use arrow keys to select...">>))
    ELSE IF mm.state = stateRunning
    THEN IF InRange(mm.steps, mm.currentStep)
         THEN Frame(Header(" version 1.1.2837 (fedora)") \o RunningLines(mm))
         ELSE FramePanic
    ELSE Frame(Header(" version 1.1.2837 (fedora)") \o DoneLines(mm))

\* m.viewport.View(): the transcript in the terminal box
ViewportView(mm) == Render("styleTermBox", Render("styleTermText", mm.viewport.content))

View_part(mm) ==
    LET term == IF mm.showTerm THEN <<"\n\n">> \o ViewportView(mm) ELSE << >>
        toggle == <<"\n ">> \o Render("styleLog", <<"Press SPACE to toggle Logs">>)
    IN  IF mm.state = stateMenu
        THEN Frame(Header(" version 1.2.3019 (fedora)") \o MenuLines(mm)
                   \o <<"\n ">> \o Render("styleLog", <<"Use arrow keys to select...">>)
                   \o toggle \o term)
        ELSE IF mm.state = stateRunning
        THEN IF InRange(mm.steps, mm.currentStep)
             THEN Frame(Header(" version 1.2.3019 (fedora)") \o RunningLines(mm)
                        \o toggle \o term)
             ELSE FramePanic
        ELSE Frame(Header(" version 1.2.3019 (fedora)") \o DoneLines(mm) \o term)

\* ------------------------------------------------------------- the program

initialModel == IF build = "main.go" THEN initialModel_main ELSE initialModel_part

Update(mm, msg) ==
    IF build = "main.go" THEN Update_main(mm, msg) ELSE Update_part(mm, msg)

View(mm) == IF build = "main.go" THEN View_main(mm) ELSE View_part(mm)

getSteps(choice) ==
    IF build = "main.go" THEN getSteps_main(choice) ELSE getSteps_part(choice)

\* The window sizes a resize event may carry.
WindowSizes == {[Width |-> 80 * d, Height |-> 24 * d] : d \in 1..MaxDim}

\* The keys the operator may press; "x" stands for any key Update has no case for.
Keys == {"ctrl+c", "q", "tab", " ", "up", "k", "down", "j", "enter", "x"}

\* What cmd.CombinedOutput() may give: the combined output, and nil, an exit
\* error, or (with no output) the failure to start bash.
Outputs == {<< >>, <<"stdout+stderr">>}

ExitError == Error(<<"exit status 1">>)

SpawnError == Error(<<"exec: \"bash\": executable file not found in $PATH">>)

CombinedOutputs ==
    {[output |-> o, err |-> e] : o \in Outputs, e \in {nil, ExitError}}
        \cup {[output |-> << >>, err |-> SpawnError]}

\* The steps of the runStep commands among cmds, in order.
RECURSIVE StepsOf(_)
StepsOf(cmds) ==
    IF cmds = << >> THEN << >>
    ELSE (IF Head(cmds).type = "runStep" THEN <<Head(cmds).step>> ELSE << >>)
             \o StepsOf(Tail(cmds))

RECURSIVE CountOf(_, _)
CountOf(cmds, type) ==
    IF cmds = << >> THEN 0
    ELSE (IF Head(cmds).type = type THEN 1 ELSE 0) + CountOf(Tail(cmds), type)

\* The event loop of tea.Program: hand msg to Update, keep the model it returns
\* and start the commands it returns.  tea.Quit ends the program; a panic in
\* Update crashes it.  inflight0 and ticks0 are the commands still running once
\* msg has been taken.
Dispatch(msg, inflight0, ticks0) ==
    LET r == Update(m, msg)
    IN  /\ m' = r.m
        /\ panicked' = r.panic
        /\ quit' = (CountOf(r.cmds, "Quit") > 0)
        /\ inflight' = inflight0 \o StepsOf(r.cmds)
        /\ executed' = executed \o StepsOf(r.cmds)
        /\ ticks' = ticks0 + CountOf(r.cmds, "Tick")
        /\ UNCHANGED build

\* The program runs until tea.Quit or a panic.
Alive == ~quit /\ ~panicked

Init ==
    /\ build \in Builds
    /\ m = initialModel
    /\ inflight = << >>
    /\ ticks = 1          \* Init() returns m.spinner.Tick
    /\ quit = FALSE
    /\ panicked = FALSE
    /\ executed = << >>
    /\ completed = << >>

Resize ==
    /\ Alive
    /\ \E size \in WindowSizes :
         Dispatch([type |-> "WindowSizeMsg", Width |-> size.Width,
                   Height |-> size.Height], inflight, ticks)
    /\ UNCHANGED completed

KeyPress ==
    /\ Alive
    /\ \E key \in Keys : Dispatch([type |-> "KeyMsg", key |-> key], inflight, ticks)
    /\ UNCHANGED completed

Tick ==
    /\ Alive
    /\ ticks > 0
    /\ \E stale \in BOOLEAN :
         Dispatch([type |-> "TickMsg", stale |-> stale], inflight, ticks - 1)
    /\ UNCHANGED completed

Remove(s, i) == SubSeq(s, 1, i - 1) \o SubSeq(s, i + 1, Len(s))

\* The message a command in flight hands to Update when it ends with res.
CompletionMsg(step, res) ==
    IF build = "main.go"
    THEN runStep_main(step, res.output, res.err)
    ELSE runStepStreamed_part(step, res.output, res.err)

\* A step command finishes and the message its closure returns is handled.
StepCompletes ==
    /\ Alive
    /\ \E i \in 1..Len(inflight), res \in CombinedOutputs :
         LET step == inflight[i]
         IN  /\ Dispatch(CompletionMsg(step, res), Remove(inflight, i), ticks)
             /\ completed' = Append(completed,
                    [step |-> step, output |-> res.output, err |-> res.err])

Next == Resize \/ KeyPress \/ Tick \/ StepCompletes

Spec == Init /\ [][Next]_vars

\* The program with the scheduling the runtime gives its commands: each command
\* runs in a goroutine of its own, so a started command's process ends and its
\* message is sent to Update whatever else happens, as long as the program runs.
LiveSpec == Init /\ [][Next]_vars /\ WF_vars(StepCompletes)

\* ---------------------------------------------------------------- claims

Last(s) == s[Len(s)]

\* The step a completion event was for, and whether it reported success.
Succeeded(c) == c.err.isNil

\* C1: at most one step command is in flight at any time; a command is started
\* only when a run is confirmed in the menu (step 0) or while the successful
\* completion of step i is handled (step i+1); current_step changes only by
\* exactly +1, and does so on every successful completion.
C1_OneCommandInFlight ==
    [][ /\ Len(inflight') <= 1
        /\ executed' # executed =>
             \/ /\ m.state = stateMenu
                /\ completed' = completed
                /\ m'.currentStep = 0
                /\ executed' = Append(executed, At(m'.steps, 0))
             \/ /\ Len(completed') = Len(completed) + 1
                /\ Last(completed').step = At(m.steps, m.currentStep)
                /\ Succeeded(Last(completed'))
                /\ m'.currentStep = m.currentStep + 1
                /\ executed' = Append(executed, At(m'.steps, m'.currentStep))
        /\ m'.currentStep # m.currentStep =>
             /\ m'.currentStep = m.currentStep + 1
             /\ completed' # completed
             /\ Succeeded(Last(completed'))
        /\ (completed' # completed /\ Succeeded(Last(completed'))) =>
             m'.currentStep = m.currentStep + 1
      ]_vars

\* C1's case: two completions handled and the third step's command in flight.
C1_Witness ==
    /\ Len(inflight) = 1
    /\ Len(completed) = 2
    /\ m.currentStep = 2
    /\ inflight[1] = At(m.steps, 2)

\* C2: phase = Running implies 0 <= current_step < len(steps), so the Running
\* view indexes steps in range and shows "Step X of N" with 1 <= X <= N.
C2_RunningStepInRange ==
    m.state = stateRunning =>
        /\ 0 <= m.currentStep
        /\ m.currentStep < Len(m.steps)
        /\ ~View(m).panic
        /\ Contains(View(m).frame,
                    <<" Step ", ToString(m.currentStep + 1), " of ",
                      ToString(Len(m.steps))>>)
        /\ 1 <= m.currentStep + 1
        /\ m.currentStep + 1 <= Len(m.steps)

\* C2's case: the last step of a plan is running.
C2_Witness ==
    /\ m.state = stateRunning
    /\ m.currentStep = Len(m.steps) - 1
    /\ Len(inflight) = 1

\* C3: phase = Done implies current_step = len(steps) or last_error is set.
C3_DoneHasOutcome ==
    m.state = stateDone => (m.currentStep = Len(m.steps) \/ ~m.err.isNil)

\* C3's case: a run ended by a failed step before the end of its plan.
C3_Witness ==
    /\ m.state = stateDone
    /\ ~m.err.isNil
    /\ m.currentStep < Len(m.steps)
    /\ completed # << >>
    /\ ~Succeeded(Last(completed))

\* C4: when the completion event of the current step reports failure the
\* machine is Done with last_error set, no command is in flight, and no step
\* after the failing one is ever started or completed in that run.
C4_FailureEndsRun ==
    \A i \in 1..Len(completed) :
        ~Succeeded(completed[i]) =>
            /\ i = Len(completed)
            /\ m.state = stateDone
            /\ ~m.err.isNil
            /\ inflight = << >>
            /\ Len(executed) = i
            /\ executed[i] = completed[i].step
            /\ completed[i].step = At(m.steps, m.currentStep)

\* C4's case: a step after the first has failed with steps of the plan left.
C4_Witness ==
    /\ Len(completed) >= 2
    /\ ~Succeeded(Last(completed))
    /\ Len(completed) < Len(m.steps)
    /\ m.state = stateDone

\* C5: for every failed step the diagnostic stored in last_error, which is
\* rendered under the FAILED banner, contains the failing step's description
\* and its captured combined output.
C5_DiagnosticHasDescAndOutput ==
    (m.state = stateDone /\ completed # << >> /\ ~Succeeded(Last(completed))) =>
        /\ ~m.err.isNil
        /\ Contains(m.err.text, <<Last(completed).step.desc>>)
        /\ Contains(m.err.text, Last(completed).output)
        /\ Contains(View(m).frame, Render("styleError", <<"FAILED">>))
        /\ Contains(View(m).frame, Render("styleLog", m.err.text))

\* An Uninstall run (the 3-step plan) whose first step, shown as "Step 1 of 3",
\* has failed.
UninstallFirstStepFailed ==
    /\ m.cursor = 2
    /\ Len(m.steps) = 3
    /\ Len(completed) = 1
    /\ ~Succeeded(completed[1])
    /\ completed[1].step = m.steps[1]

\* C6 as stated (Scenario A): in an Uninstall run in which step 1 fails, the
\* final state has phase = Done and current_step = 1, last_error is set, and
\* steps 2 and 3 are never executed.
C6_ScenarioA_AsStated ==
    UninstallFirstStepFailed =>
        /\ m.state = stateDone
        /\ m.currentStep = 1
        /\ ~m.err.isNil
        /\ executed = <<m.steps[1]>>

\* C6 as amended: in an Uninstall run in which the k-th step fails, the final
\* state has phase = Done and current_step = k - 1, the index of the failing
\* step (0 when step 1 fails), last_error is set, and the steps after the
\* k-th are never executed.
C6_ScenarioA ==
    \A k \in 1..Len(completed) :
        (m.cursor = 2 /\ ~Succeeded(completed[k])) =>
            /\ Len(m.steps) = 3
            /\ k = Len(completed)
            /\ m.state = stateDone
            /\ m.currentStep = k - 1
            /\ ~m.err.isNil
            /\ inflight = << >>
            /\ executed = SubSeq(m.steps, 1, k)

\* C6's case: the first step of an Uninstall run has failed.
C6_Witness == UninstallFirstStepFailed /\ m.state = stateDone /\ m.currentStep = 0

\* All the plan's steps have completed, each successfully.
AllStepsSucceeded ==
    /\ m.steps # << >>
    /\ Len(completed) = Len(m.steps)
    /\ \A i \in 1..Len(completed) : Succeeded(completed[i])

\* C7 (Scenario B): in a run whose N steps all complete successfully the final
\* state has phase = Done, current_step = N and last_error unset, the view
\* shows "Process Completed." under the SUCCESS banner, and the N steps were
\* executed in plan order, each exactly once.
C7_ScenarioB ==
    AllStepsSucceeded =>
        /\ m.state = stateDone
        /\ m.currentStep = Len(m.steps)
        /\ m.err.isNil
        /\ inflight = << >>
        /\ Contains(View(m).frame,
                    Render("styleSuccess", <<"SUCCESS">>) \o <<"\n ">>
                        \o Render("styleLog", <<"Process Completed.">>))
        /\ executed = m.steps
        /\ [i \in 1..Len(completed) |-> completed[i].step] = m.steps

\* C7's case: an Install run of the later build (10 steps) has succeeded.
C7_Witness ==
    /\ AllStepsSucceeded
    /\ Len(m.steps) = 10
    /\ m.cursor = 0

\* The transcript segments of the completion events cs, in order.
RECURSIVE Transcript(_)
Transcript(cs) ==
    IF cs = << >> THEN << >>
    ELSE LogSegment(Head(cs).step.desc, Head(cs).output) \o Transcript(Tail(cs))

C9_QuitKeyTerminates ==
    Alive =>
        \A key \in {"q", "ctrl+c"} :
            CountOf(Update(m, [type |-> "KeyMsg", key |-> key]).cmds, "Quit") > 0

\* C10: confirming a menu selection whose plan is empty.  The case does not
\* arise: the cursor stays within the four menu entries, entry 3 (Exit) quits
\* before a plan is built, and getSteps is non-empty for entries 0, 1 and 2.
C10_EmptyPlanUnreachable ==
    /\ m.cursor \in 0..(Len(choices) - 1)
    /\ (m.state = stateMenu /\ m.cursor # 3) =>
           /\ getSteps_main(m.cursor) # << >>
           /\ getSteps_part(m.cursor) # << >>
    /\ ~panicked

\* The key message the runtime hands to Update for a key.
KeyMsg(key) == [type |-> "KeyMsg", key |-> key]

\* C11: the toggle key (tab or space) in any phase flips only log-viewport
\* visibility: phase, current_step, steps, cursor, log_text and last_error are
\* unchanged, no command is started and the process does not terminate.  The
\* viewport exists in src/unnamed/part_000 only; in src/main.go the two keys
\* change nothing at all.
C11_ToggleFlipsOnlyVisibility ==
    Alive =>
        \A key \in {"tab", " "} :
            LET r == Update(m, KeyMsg(key))
            IN  /\ r.cmds = << >>
                /\ ~r.panic
                /\ r.m = IF build = "part_000"
                         THEN [m EXCEPT !.showTerm = ~m.showTerm]
                         ELSE m

\* C11's case: the log viewport has been toggled on while a step is in flight.
C11_Witness ==
    /\ build = "part_000"
    /\ m.showTerm
    /\ m.state = stateRunning
    /\ Len(inflight) = 1
    /\ Len(completed) = 1

\* C12: the menu cursor is clamped without wraparound: 0 <= cursor <=
\* len(choices)-1 always; up at 0 leaves it at 0, down at the last index leaves
\* it unchanged; elsewhere up and down move it by one.
C12_CursorClamped ==
    /\ 0 <= m.cursor
    /\ m.cursor <= Len(choices) - 1
    /\ (Alive /\ m.state = stateMenu) =>
          /\ \A key \in {"up", "k"} :
                Update(m, KeyMsg(key)).m.cursor
                    = IF m.cursor = 0 THEN 0 ELSE m.cursor - 1
          /\ \A key \in {"down", "j"} :
                Update(m, KeyMsg(key)).m.cursor
                    = IF m.cursor = Len(choices) - 1 THEN m.cursor ELSE m.cursor + 1

\* C12's case: the cursor has been moved down to the last entry of the menu.
C12_Witness ==
    /\ Alive
    /\ m.state = stateMenu
    /\ m.cursor = Len(choices) - 1

\* C13: confirming Exit in the menu terminates the process without entering
\* the Running phase: no plan is built and no command is started.
C13_ExitNeverRuns ==
    /\ (Alive /\ m.state = stateMenu /\ m.cursor = 3) =>
          Update(m, KeyMsg("enter")) = Return(m, <<Quit>>)
    /\ (quit /\ m.cursor = 3) =>
          /\ m.state = stateMenu
          /\ m.steps = << >>
          /\ executed = << >>
          /\ inflight = << >>
          /\ ~panicked

\* C13's case: the program has ended with the cursor on Exit.
C13_Witness ==
    /\ quit
    /\ m.cursor = 3
    /\ m.state = stateMenu
    /\ executed = << >>

\* C14: confirming a non-Exit operation in the menu moves to Running with the
\* plan of the selected operation, current_step = 0, log_text and last_error
\* cleared, and starts exactly the command of step 0.
C14_ConfirmStartsRun ==
    /\ (Alive /\ m.state = stateMenu /\ m.cursor # 3) =>
          LET r == Update(m, KeyMsg("enter"))
          IN  /\ ~r.panic
              /\ r.m.state = stateRunning
              /\ r.m.steps = getSteps(m.cursor)
              /\ r.m.steps # << >>
              /\ r.m.currentStep = 0
              /\ r.m.err.isNil
              /\ (build = "part_000" => r.m.termContent = << >>)
              /\ r.m.cursor = m.cursor
              /\ StepsOf(r.cmds) = <<At(getSteps(m.cursor), 0)>>
              /\ CountOf(r.cmds, "Quit") = 0
    /\ (m.state = stateRunning /\ completed = << >>) =>
          /\ m.steps = getSteps(m.cursor)
          /\ m.currentStep = 0
          /\ m.err.isNil
          /\ (build = "part_000" => m.termContent = << >>)
          /\ executed = <<At(m.steps, 0)>>
          /\ inflight = executed

\* C14's case: Uninstall has been confirmed and its first command is in flight.
C14_Witness ==
    /\ m.state = stateRunning
    /\ m.cursor = 2
    /\ completed = << >>
    /\ Len(inflight) = 1

\* The events the runtime may hand to Update that are no completion event.
UserEvents ==
    {KeyMsg(key) : key \in Keys}
        \cup {[type |-> "WindowSizeMsg", Width |-> size.Width, Height |-> size.Height] :
                 size \in WindowSizes}
        \cup {[type |-> "TickMsg", stale |-> b] : b \in BOOLEAN}

\* Done is left by no event: phase, current_step, steps and last_error stay
\* and no command is started.
DoneStays ==
    (Alive /\ m.state = stateDone) =>
        /\ inflight = << >>
        /\ \A msg \in UserEvents :
              LET r == Update(m, msg)
              IN  /\ ~r.panic
                  /\ r.m.state = stateDone
                  /\ r.m.currentStep = m.currentStep
                  /\ r.m.steps = m.steps
                  /\ r.m.err = m.err
                  /\ StepsOf(r.cmds) = << >>
                  /\ CountOf(r.cmds, "Tick") = 0

\* C15: Done is terminal: once phase = Done no event changes phase,
\* current_step, steps or last_error or starts a command, and pressing enter
\* or the quit key (q or ctrl+c) terminates the process.
C15_DoneIsTerminal ==
    /\ DoneStays
    /\ (Alive /\ m.state = stateDone) =>
          \A key \in {"enter", "q", "ctrl+c"} :
              CountOf(Update(m, KeyMsg(key)).cmds, "Quit") > 0

\* The stage of the documented workflow a step belongs to: for Install and
\* Upgrade 1 dependencies, 2 workspace cleanup, 3 source fetch, 4 patch,
\* 5 configure, 6 build, 7 install, 8 cleanup; for Uninstall 1 binary,
\* 2 desktop entry, 3 icon.
Stage(step) ==
    CASE step.desc \in {"Installing Group Tools...",
                        "Installing Libraries (X11/GL/Audio)...",
                        "Installing Deps (GLU/Curl/X11)..."} -> 1
      [] step.desc \in {"Cleaning previous builds...",
                        "Creating build directory..."} -> 2
      [] step.desc = "Cloning Repository..." -> 3
      [] step.desc = "Patching SDL2..." -> 4
      [] step.desc \in {"Configuring CMake...",
                        "Configuring CMake (Forcing Pro)..."} -> 5
      [] step.desc \in {"Compiling (Using all cores)...", "Compiling..."} -> 6
      [] step.desc \in {"Installing to /usr/local/bin...", "Installing..."} -> 7
      [] step.desc = "Cleaning up..." -> 8
      [] step.desc = "Removing Binary..." -> 1
      [] step.desc \in {"Removing Desktop Entry...", "Removing Desktop..."} -> 2
      [] step.desc = "Removing Icon..." -> 3
      [] OTHER -> 0

Stages(plan) == [i \in 1..Len(plan) |-> Stage(plan[i])]

\* The plan goes through the stages in order, the patch stage being optional.
InWorkflowOrder(plan) ==
    /\ \A i \in 1..(Len(plan) - 1) : Stage(plan[i]) <= Stage(plan[i + 1])
    /\ {Stage(plan[i]) : i \in 1..Len(plan)} \ {4} = {1, 2, 3, 5, 6, 7, 8}

\* C16: plan(op) is non-empty for Install, Upgrade and Uninstall; Install and
\* Upgrade resolve to the same sequence, in the documented workflow order;
\* Uninstall resolves to the three removal steps (binary, desktop entry,
\* icon); and the plan a run holds is the plan of its operation.
C16_Plans ==
    /\ \A op \in 0..2 : getSteps(op) # << >>
    /\ getSteps(0) = getSteps(1)
    /\ InWorkflowOrder(getSteps(0))
    /\ Stages(getSteps(2)) = <<1, 2, 3>>
    /\ (m.state # stateMenu => m.steps = getSteps(m.cursor))

\* C16's case: an Upgrade run holds its plan, the same as Install's.
C16_Witness ==
    /\ m.state = stateRunning
    /\ m.cursor = 1
    /\ m.steps = getSteps(0)
    /\ build = "part_000"

\* C17: while phase is Running or Done, up, down and enter never change the
\* cursor; while Running, enter changes nothing at all and starts no command.
C17_KeysInertOutsideMenu ==
    (Alive /\ m.state \in {stateRunning, stateDone}) =>
        \A key \in {"up", "k", "down", "j", "enter"} :
            LET r == Update(m, KeyMsg(key))
            IN  /\ r.m.cursor = m.cursor
                /\ ~r.panic
                /\ (m.state = stateRunning /\ key = "enter") =>
                      (r.m = m /\ r.cmds = << >>)

\* C17's case: a run below the first menu entry is under way, a step in flight.
C17_Witness ==
    /\ Alive
    /\ m.state = stateRunning
    /\ m.cursor = 1
    /\ Len(inflight) = 1
    /\ Len(completed) = 3

\* A run has ended as the plan prescribes: with success after len(steps)
\* completions, or with failure at the first failed step.
RunEnded ==
    /\ m.state = stateDone
    /\ \/ /\ m.err.isNil
          /\ Len(completed) = Len(m.steps)
          /\ \A i \in 1..Len(completed) : Succeeded(completed[i])
       \/ /\ ~m.err.isNil
          /\ completed # << >>
          /\ ~Succeeded(Last(completed))
          /\ \A i \in 1..(Len(completed) - 1) : Succeeded(completed[i])

\* C18: progress: when every started command eventually delivers its
\* completion event and the operator does not quit, every run started from
\* the Menu eventually reaches Done (success after len(steps) completions, or
\* failure at the first failed step); the machine is never in Running with no
\* command in flight.
C18_Progress ==
    /\ []((Alive /\ m.state = stateRunning) => inflight # << >>)
    /\ (m.state = stateRunning) ~> (quit \/ RunEnded)

\* C18's case: a run of the nine-step plan has reached Done after all of its
\* completions, the operator still there.
C18_Witness ==
    /\ Alive
    /\ RunEnded
    /\ build = "main.go"
    /\ Len(completed) = 9

\* C19: the completion handler reads steps[current_step] first; whenever a
\* completion event can be delivered phase = Running and current_step <
\* len(steps), the command in flight is that of the current step, and the
\* handler's index is in range: none arrives in Menu or in Done, and the
\* program never panics.
C19_CompletionIndexInRange ==
    /\ ~panicked
    /\ m.state \in {stateMenu, stateDone} => inflight = << >>
    /\ inflight # << >> =>
          /\ m.state = stateRunning
          /\ InRange(m.steps, m.currentStep)
          /\ inflight = <<At(m.steps, m.currentStep)>>
    /\ Alive =>
          \A i \in 1..Len(inflight), res \in CombinedOutputs :
              ~Update(m, CompletionMsg(inflight[i], res)).panic

\* C19's case: the later build has handled the completion of the last step of
\* its ten-step plan, and no further completion can arrive.
C19_Witness ==
    /\ build = "part_000"
    /\ ~panicked
    /\ m.state = stateDone
    /\ Len(completed) = 10
    /\ m.currentStep = Len(m.steps)
    /\ inflight = << >>

\* The banners of the Done view.
SuccessBanner == Render("styleSuccess", <<"SUCCESS">>)

FailedBanner == Render("styleError", <<"FAILED">>)

\* C20: in Done the outcome is unambiguous: last_error is set iff
\* current_step < len(steps); the SUCCESS banner is rendered exactly when every
\* step of the plan completed successfully and the FAILED banner exactly when
\* some step failed.
C20_OutcomeUnambiguous ==
    m.state = stateDone =>
        /\ ~m.err.isNil <=> m.currentStep < Len(m.steps)
        /\ m.err.isNil <=> m.currentStep = Len(m.steps)
        /\ ~View(m).panic
        /\ Contains(View(m).frame, SuccessBanner) <=> AllStepsSucceeded
        /\ Contains(View(m).frame, FailedBanner)
              <=> \E i \in 1..Len(completed) : ~Succeeded(completed[i])
        /\ Contains(View(m).frame, SuccessBanner)
              <=> ~Contains(View(m).frame, FailedBanner)

\* C20's case: the FAILED banner is on screen after a run that failed at its
\* last step.
C20_Witness ==
    /\ m.state = stateDone
    /\ Contains(View(m).frame, FailedBanner)
    /\ m.currentStep = Len(m.steps) - 1
    /\ Len(completed) = Len(m.steps)

====
